---- MODULE Spec2Model ----
(***************************************************************************)
(* The TimeSeriesTransport analysis task of MPAS-Analysis                  *)
(* (mpas_analysis/ocean/time_series_transport.py): the subtask graph its   *)
(* constructor builds, setup_and_check and run_task of the compute,        *)
(* combine and plot subtasks, and the files they leave in the transport/   *)
(* output directory.                                                       *)
(*                                                                         *)
(* A file transport_<s>-<e>.nc is named by the pair <<s, e>>.  Its content *)
(* is a sequence of time slices; a slice carries its (year, month), the    *)
(* transectNames coordinate and, per column of the transport variable, the *)
(* transect of the mask file the column was integrated over.  hasYM tells  *)
(* whether the file holds the variables year and month.                    *)
(***************************************************************************)
EXTENDS Integers, Sequences, FiniteSets, TLC

\* Bounds of the model.
MaxYear == 2
MaxMonth == 2
MaxTransects == 2
MaxRuns == 2

\* 'all' in the option transectsToPlot (transect names are 1..MaxTransects).
ALL == 0

Years == 1..MaxYear
Months == 1..MaxMonth
Names == 1..MaxTransects

VARIABLES
    startYear, endYear,     \* config: [timeSeries] startYear, endYear
    cfgTransectsToPlot,     \* config: [timeSeriesTransport] transectsToPlot
    featureNames,           \* names of the features of transportTransects.geojson
    controlConfig,          \* whether there is a control run, and its transport file
    restartFiles,           \* paths of the 'restart' stream
    analysisEnabled,        \* config_am_timeseriesstatsmonthly_enable
    inputMonths,            \* year -> months with a timeSeriesStatsMonthly file
    computeSubtasks,        \* the ComputeTransportSubtasks, in creation order
    combineSubtask,         \* the CombineTransportSubtask
    plotSubtasks,           \* the PlotTransportSubtasks, in creation order
    subtasks,               \* the subtasks registered with add_subtask
    runAfterTasks,          \* task -> the tasks it runs after
    status,                 \* task -> where it is in its life
    restartFileName,        \* compute subtask -> self.restartFileName
    lookup,                 \* compute subtask -> outcome of readpath('restart')
    raised,                 \* task -> the exception that ended it, or "none"
    outcome,                \* task -> the path its run_task took
    dirExists,              \* the transport/ output directory exists
    madeDir,                \* compute subtask -> what its os.makedirs did
    disk,                   \* file name -> content
    maskFile,               \* the transect mask file of masksSubtask
    loaded,                 \* plot subtask -> the series it loaded
    opened,                 \* the input files the combine subtask opened
    run                     \* the number of the run of the analysis

config == <<startYear, endYear, cfgTransectsToPlot, featureNames, controlConfig,
            restartFiles, analysisEnabled, inputMonths>>
graph == <<computeSubtasks, combineSubtask, plotSubtasks, subtasks, runAfterTasks>>
vars == <<config, graph, status, restartFileName, lookup, raised, outcome,
          dirExists, disk, maskFile, loaded, opened, madeDir, run>>

------------------------------------------------------------------------------
\* Helpers on sequences

Range(s) == {s[k] : k \in 1..Len(s)}

RECURSIVE SortedSeq(_)
SortedSeq(S) ==
    IF S = {} THEN <<>>
    ELSE LET m == CHOOSE x \in S : \A y \in S : x <= y
         IN  <<m>> \o SortedSeq(S \ {m})

RECURSIVE Flatten(_)
Flatten(ss) == IF ss = <<>> THEN <<>> ELSE Head(ss) \o Flatten(Tail(ss))

InjectiveSeqs(S) ==
    UNION {{s \in [1..n -> S] : \A a, b \in 1..n : a # b => s[a] # s[b]} :
           n \in 0..Cardinality(S)}

------------------------------------------------------------------------------
\* Files

NoFile == [exists |-> FALSE, slices |-> <<>>, hasYM |-> FALSE]

File(slices, hasYM) == [exists |-> TRUE, slices |-> slices, hasYM |-> hasYM]

Slice(ym, names, cols) == [ym |-> ym, names |-> names, cols |-> cols]

FileNames == {<<s, e>> : s \in Years, e \in Years}

NoMask == [exists |-> FALSE, transectNames |-> <<>>]

------------------------------------------------------------------------------
\* Tasks

Masks == [kind |-> "masks", n |-> 0]
Combine == [kind |-> "combine", n |-> 0]
Compute(i) == [kind |-> "compute", n |-> i]
Plot(j) == [kind |-> "plot", n |-> j]

------------------------------------------------------------------------------
\* TimeSeriesTransport.__init__

\* Faulty variant: range(startYear, endYear), which leaves out the last year
yearsExclusive(sy, ey) == [k \in 1..(ey - sy) |-> sy + k - 1]

\* years = [year for year in range(startYear, endYear + 1)]
years(sy, ey) == [k \in 1..(ey - sy + 1) |-> sy + k - 1]

\* if 'all' in transectsToPlot: transectsToPlot = get_feature_list(...)
TransectsToPlot(cfg, features) == IF ALL \in Range(cfg) THEN features ELSE cfg

transectsToPlot == TransectsToPlot(cfgTransectsToPlot, featureNames)

\* combineSubtask = CombineTransportSubtask(self, startYears=years, endYears=years)
NewCombineSubtask(yrs) == [startYears |-> yrs, endYears |-> yrs]

\* for year in years: ComputeTransportSubtask(self, startYear=year, endYear=year, ...)
NewComputeSubtasks(yrs) ==
    [i \in 1..Len(yrs) |-> [startYear |-> yrs[i], endYear |-> yrs[i]]]

\* for index, transect in enumerate(transectsToPlot): PlotTransportSubtask(...)
NewPlotSubtasks(ttp) ==
    [j \in 1..Len(ttp) |-> [transect |-> ttp[j], transectIndex |-> j - 1]]

\* self.add_subtask(masksSubtask), (computeSubtask), (plotTransportSubtask)
AddedSubtasks(nCompute, nPlot) ==
    {Masks} \cup {Compute(i) : i \in 1..nCompute} \cup {Plot(j) : j \in 1..nPlot}

\* Faulty variant: the compute subtasks do not wait for the masks
ComputeRunAfterNothing(i) == {}

\* computeSubtask.run_after(masksSubtask), also in ComputeTransportSubtask.__init__
ComputeRunAfter(i) == {Masks}

\* Faulty variant: run_after called once, after the loop, on the last subtask
CombineRunAfterLast(nCompute) == IF nCompute = 0 THEN {} ELSE {Compute(nCompute)}

\* combineSubtask.run_after(computeSubtask), for every year of the loop
CombineRunAfter(nCompute) == {Compute(i) : i \in 1..nCompute}

\* Faulty variant: the plot subtasks do not wait for the combined file
PlotRunAfterNothing(j) == {}

\* plotTransportSubtask.run_after(combineSubtask)
PlotRunAfter(j) == {Combine}

AllTasks(nCompute, nPlot) == AddedSubtasks(nCompute, nPlot) \cup {Combine}

RunAfter(nCompute, nPlot) ==
    [t \in AllTasks(nCompute, nPlot) |->
        CASE t.kind = "masks" -> {}
          [] t.kind = "compute" -> ComputeRunAfter(t.n)
          [] t.kind = "combine" -> CombineRunAfter(nCompute)
          [] t.kind = "plot" -> PlotRunAfter(t.n)]

Tasks == DOMAIN status
ComputeIds == 1..Len(computeSubtasks)
PlotIds == 1..Len(plotSubtasks)

------------------------------------------------------------------------------
\* The task framework: which tasks run, and in which state they start

\* A registered subtask runs, and so does every task one of them runs after.
Scheduled(added, after) ==
    LET Step(S) == S \cup UNION {after[t] : t \in S}
    IN  Step(Step(Step(added)))

\* A compute subtask first runs its setup_and_check; the setup of the other
\* subtasks is the base class's and always passes here.
InitialStatus(added, after) ==
    [t \in DOMAIN after |->
        IF t \notin Scheduled(added, after) THEN "unscheduled"
        ELSE IF t.kind = "compute" THEN "new" ELSE "ready"]

Started == {"running", "makedirs", "body", "success", "fail"}
Ended == {"unscheduled", "success", "fail", "rejected", "blocked"}

------------------------------------------------------------------------------
\* The state after construction, for a configuration and a prior content of
\* the output directory

InitWith(sy, ey, cfg, features, control, restarts, enabled, inputs, files) ==
    /\ startYear = sy
    /\ endYear = ey
    /\ cfgTransectsToPlot = cfg
    /\ featureNames = features
    /\ controlConfig = control
    /\ restartFiles = restarts
    /\ analysisEnabled = enabled
    /\ inputMonths = inputs
    /\ computeSubtasks = NewComputeSubtasks(years(sy, ey))
    /\ combineSubtask = NewCombineSubtask(years(sy, ey))
    /\ plotSubtasks = NewPlotSubtasks(TransectsToPlot(cfg, features))
    /\ subtasks = AddedSubtasks(Len(computeSubtasks), Len(plotSubtasks))
    /\ runAfterTasks = RunAfter(Len(computeSubtasks), Len(plotSubtasks))
    /\ status = InitialStatus(subtasks, runAfterTasks)
    /\ restartFileName = [i \in ComputeIds |-> "None"]
    /\ lookup = [i \in ComputeIds |-> "notCalled"]
    /\ raised = [t \in DOMAIN runAfterTasks |-> "none"]
    /\ outcome = [t \in DOMAIN runAfterTasks |-> "none"]
    /\ dirExists = (\E f \in FileNames : files[f].exists)
    /\ disk = files
    /\ maskFile = NoMask
    /\ loaded = [j \in PlotIds |-> <<>>]
    /\ opened = {}
    /\ madeDir = [i \in ComputeIds |-> "notCalled"]
    /\ run = 1

EmptyDisk == [f \in FileNames |-> NoFile]

NoControl == [present |-> FALSE, file |-> NoFile]

------------------------------------------------------------------------------
\* ComputeTransportSubtask.setup_and_check

\* Faulty variant: the ValueError of the lookup is swallowed
SetupResultSwallowed(enabled, restarts) ==
    IF ~enabled
    THEN [raised |-> "RuntimeError", lookup |-> "notCalled", restart |-> "None"]
    ELSE IF restarts = <<>>
    THEN [raised |-> "none", lookup |-> "ValueError", restart |-> "None"]
    ELSE [raised |-> "none", lookup |-> "paths", restart |-> restarts[1]]

\* check_analysis_enabled(..., raiseException=True), then
\* self.runStreams.readpath('restart')[0], whose ValueError becomes an IOError
SetupResult(enabled, restarts) ==
    IF ~enabled
    THEN [raised |-> "RuntimeError", lookup |-> "notCalled", restart |-> "None"]
    ELSE IF restarts = <<>>
    THEN [raised |-> "IOError", lookup |-> "ValueError", restart |-> "None"]
    ELSE [raised |-> "none", lookup |-> "paths", restart |-> restarts[1]]

SetupAndCheck(i) ==
    /\ status[Compute(i)] = "new"
    /\ LET r == SetupResult(analysisEnabled, restartFiles)
       IN  /\ lookup' = [lookup EXCEPT ![i] = r.lookup]
           /\ raised' = [raised EXCEPT ![Compute(i)] = r.raised]
           /\ restartFileName' =
                  IF r.raised = "none"
                  THEN [restartFileName EXCEPT ![i] = r.restart]
                  ELSE restartFileName
           /\ status' = [status EXCEPT ![Compute(i)] =
                             IF r.raised = "none" THEN "ready" ELSE "rejected"]
    /\ UNCHANGED <<config, graph, outcome, dirExists, disk, maskFile, loaded, opened, madeDir, run>>

------------------------------------------------------------------------------
\* The task framework: a task starts once every task it runs after has
\* succeeded, and never runs when one of them has not

CanStart(t) == \A p \in runAfterTasks[t] : status[p] = "success"

StartTask(t) ==
    /\ status[t] = "ready"
    /\ CanStart(t)
    /\ status' = [status EXCEPT ![t] =
                      IF t.kind = "compute" THEN "makedirs" ELSE "running"]
    /\ UNCHANGED <<config, graph, restartFileName, lookup, raised, outcome,
                   dirExists, disk, maskFile, loaded, opened, madeDir, run>>

BlockTask(t) ==
    /\ status[t] \in {"new", "ready"}
    /\ \E p \in runAfterTasks[t] : status[p] \in {"fail", "rejected", "blocked"}
    /\ status' = [status EXCEPT ![t] = "blocked"]
    /\ UNCHANGED <<config, graph, restartFileName, lookup, raised, outcome,
                   dirExists, disk, maskFile, loaded, opened, madeDir, run>>

\* ComputeTransectMasksSubtask.run_task: the mask file holds the transects of
\* the feature file
MasksRunTask ==
    /\ status[Masks] = "running"
    /\ maskFile' = [exists |-> TRUE, transectNames |-> featureNames]
    /\ status' = [status EXCEPT ![Masks] = "success"]
    /\ outcome' = [outcome EXCEPT ![Masks] = "written"]
    /\ UNCHANGED <<config, graph, restartFileName, lookup, raised,
                   dirExists, disk, loaded, opened, madeDir, run>>

------------------------------------------------------------------------------
\* ComputeTransportSubtask.run_task

\* A path as the code formats it: the option of [output] that holds the base
\* directory, the components under it ("" between two slashes) and the years
\* of the file name transport_<s>-<e>.nc
Path(option, dirs, s, e) == [option |-> option, dirs |-> dirs, years |-> <<s, e>>]

\* Option names are case-insensitive in the configuration, and the file system
\* skips an empty component
OptionKey(option) ==
    IF option \in {"timeseriesSubdirectory", "timeSeriesSubdirectory"}
    THEN "timeseriessubdirectory" ELSE option

ResolvePath(p) ==
    LET NonEmpty(d) == d # ""
    IN  [option |-> OptionKey(p.option), dirs |-> SelectSeq(p.dirs, NonEmpty),
         years |-> p.years]

FileOf(p) == ResolvePath(p).years

\* outputDirectory = '{}/transport/'.format(build_config_full_path(config,
\* 'output', 'timeseriesSubdirectory')), then
\* '{}/transport_{:04d}-{:04d}.nc'.format(outputDirectory, startYear, endYear)
ComputeOutPath(c) ==
    Path("timeseriesSubdirectory", <<"transport", "">>, c.startYear, c.endYear)

OutFileName(c) == FileOf(ComputeOutPath(c))

\* os.makedirs(outputDirectory): the directory is created, or OSError is raised
\* when it is there already (another subtask, or an earlier run, made it)
Makedirs(exists) == IF exists THEN "OSError" ELSE "created"

\* Faulty variant: the OSError of os.makedirs is not caught
MakedirsRaisedUncaught(made) == IF made = "OSError" THEN "OSError" ELSE "none"

\* try: os.makedirs(outputDirectory) except OSError: pass
MakedirsRaised(made) == "none"

ComputeMakedirs(i) ==
    /\ status[Compute(i)] = "makedirs"
    /\ dirExists' = TRUE
    /\ madeDir' = [madeDir EXCEPT ![i] = Makedirs(dirExists)]
    /\ raised' = [raised EXCEPT ![Compute(i)] = MakedirsRaised(Makedirs(dirExists))]
    /\ status' = [status EXCEPT ![Compute(i)] =
                      IF MakedirsRaised(Makedirs(dirExists)) = "none"
                      THEN "body" ELSE "fail"]
    /\ UNCHANGED <<config, graph, restartFileName, lookup, outcome,
                   disk, maskFile, loaded, opened, run>>

\* inputFiles = sorted(readpath('timeSeriesStatsMonthlyOutput', startDate, endDate))
\* with years, months = get_files_year_month(inputFiles, ...): one (year, month)
\* per file
InputFiles(c, inputs) ==
    Flatten([k \in 1..(c.endYear - c.startYear + 1) |->
                LET y == c.startYear + k - 1
                    ms == SortedSeq(inputs[y])
                IN  [m \in 1..Len(ms) |-> <<y, ms[m]>>]])

\* open_mpas_dataset(fileName=outFileName, startDate=startDate, endDate=endDate):
\* the Time entries between <startYear>-01-01 and <endYear>-12-31
OpenOutput(file, c) ==
    LET InRange(s) == c.startYear <= s.ym[1] /\ s.ym[1] <= c.endYear
    IN  SelectSeq(file.slices, InRange)

\* Faulty variant: only the first Time entry of the output is compared, and an
\* output that holds it is recomputed
OutputCheckInverted(file, c, inputs) ==
    LET dsOut == OpenOutput(file, c)
    IN  IF ~file.exists THEN "absent"
        ELSE IF dsOut = <<>> THEN "valid"
        ELSE IF ~file.hasYM THEN "AttributeError"
        ELSE IF \E k \in 1..Len(inputs) : inputs[k] = dsOut[1].ym
             THEN "invalid"
        ELSE "valid"

\* outputExists, outputValid: every Time entry of the output has the year and
\* month of some input file; reading dsOut.year of a file without it raises
OutputCheck(file, c, inputs) ==
    LET dsOut == OpenOutput(file, c)
    IN  IF ~file.exists THEN "absent"
        ELSE IF dsOut = <<>> THEN "valid"
        ELSE IF ~file.hasYM THEN "AttributeError"
        ELSE IF \A inIndex \in 1..Len(dsOut) :
                    \E k \in 1..Len(inputs) : inputs[k] = dsOut[inIndex].ym
             THEN "valid"
        ELSE "invalid"

\* for transect in self.transectsToPlot: the first index of the transect in the
\* transectNames of the mask file; a transect that is not found is skipped
Found(ttp, maskNames) ==
    LET InMask(t) == t \in Range(maskNames)
    IN  SelectSeq(ttp, InMask)

FirstIndex(names, t) ==
    CHOOSE k \in 1..Len(names) : names[k] = t /\ \A q \in 1..(k - 1) : names[q] # t

TransectIndices(ttp, maskNames) ==
    LET found == Found(ttp, maskNames)
    IN  [k \in 1..Len(found) |-> FirstIndex(maskNames, found[k]) - 1]

OutTransectNames(ttp, maskNames) == Found(ttp, maskNames)

\* dsOut['transport'] over dsTransectMask.isel(nTransects=transectIndices), with
\* coords['transectNames'] = outTransectNames; no year or month is written
ComputedFile(inputs, ttp, maskNames) ==
    LET transectIndices == TransectIndices(ttp, maskNames)
        cols == [q \in 1..Len(transectIndices) |-> maskNames[transectIndices[q] + 1]]
    IN  File([k \in 1..Len(inputs) |->
                 Slice(inputs[k], OutTransectNames(ttp, maskNames), cols)],
             FALSE)

\* The path run_task takes and the output file it leaves
ComputeResult(c, file, inputs, restart, mask, ttp) ==
    IF inputs = <<>>
    THEN [outcome |-> "raised", raised |-> "IndexError", file |-> file]
    ELSE LET chk == OutputCheck(file, c, inputs)
         IN  IF chk = "AttributeError"
             THEN [outcome |-> "raised", raised |-> "AttributeError", file |-> file]
             ELSE IF chk = "valid"
             THEN [outcome |-> "exists", raised |-> "none", file |-> file]
             ELSE IF restart = "None" \/ ~mask.exists
             THEN [outcome |-> "raised", raised |-> "IOError", file |-> file]
             ELSE [outcome |-> "written", raised |-> "none",
                   file |-> ComputedFile(inputs, ttp, mask.transectNames)]

ComputeRunTask(i) ==
    /\ status[Compute(i)] = "body"
    /\ LET c == computeSubtasks[i]
           r == ComputeResult(c, disk[OutFileName(c)], InputFiles(c, inputMonths),
                              restartFileName[i], maskFile, transectsToPlot)
       IN  /\ disk' = [disk EXCEPT ![OutFileName(c)] = r.file]
           /\ outcome' = [outcome EXCEPT ![Compute(i)] = r.outcome]
           /\ raised' = [raised EXCEPT ![Compute(i)] = r.raised]
           /\ status' = [status EXCEPT ![Compute(i)] =
                             IF r.raised = "none" THEN "success" ELSE "fail"]
    /\ UNCHANGED <<config, graph, restartFileName, lookup, dirExists, maskFile,
                   loaded, opened, madeDir, run>>

------------------------------------------------------------------------------
\* CombineTransportSubtask.run_task

\* Faulty variant: the end of the first series instead of the last
CombineOutPathFirstEnd(cs) ==
    Path("timeseriesSubdirectory", <<"transport", "">>,
         cs.startYears[1], cs.endYears[1])

\* '{}/transport_{:04d}-{:04d}.nc'.format(outputDirectory, self.startYears[0],
\* self.endYears[-1]), outputDirectory as in the compute subtask
CombineOutPath(cs) ==
    Path("timeseriesSubdirectory", <<"transport", "">>,
         cs.startYears[1], cs.endYears[Len(cs.endYears)])

CombineOutFileName(cs) == FileOf(CombineOutPath(cs))

\* for startYear, endYear in zip(self.startYears, self.endYears)
InFileNames(cs) ==
    LET n == IF Len(cs.startYears) <= Len(cs.endYears)
             THEN Len(cs.startYears) ELSE Len(cs.endYears)
    IN  [k \in 1..n |-> <<cs.startYears[k], cs.endYears[k]>>]

\* Faulty variant: the combined file is rebuilt whether or not it exists
MustCombineAlways(file) == TRUE

\* if not os.path.exists(outFileName)
MustCombine(file) == ~file.exists

\* Faulty variant: the files are concatenated in descending order
CombinedDescending(files) ==
    File(Flatten([k \in 1..Len(files) |-> files[Len(files) + 1 - k].slices]),
         files[1].hasYM)

\* xarray.open_mfdataset(inFileNames, combine='nested', concat_dim='Time'): the
\* files in the order given; a missing file, a coordinate held by some files
\* only, or files with different numbers of transects raise
Combined(files) ==
    File(Flatten([k \in 1..Len(files) |-> files[k].slices]), files[1].hasYM)

CombineResult(cs, d) ==
    IF cs.startYears = <<>> \/ cs.endYears = <<>>
    THEN [outcome |-> "raised", raised |-> "IndexError", opened |-> {},
          out |-> <<>>, file |-> NoFile]
    ELSE LET out == CombineOutFileName(cs)
             names == InFileNames(cs)
             files == [k \in 1..Len(names) |-> d[names[k]]]
             slices == Flatten([k \in 1..Len(files) |-> files[k].slices])
         IN  IF ~MustCombine(d[out])
             THEN [outcome |-> "exists", raised |-> "none", opened |-> {},
                   out |-> out, file |-> d[out]]
             ELSE IF \E k \in 1..Len(files) : ~files[k].exists
             THEN [outcome |-> "raised", raised |-> "IOError",
                   opened |-> Range(names), out |-> out, file |-> d[out]]
             ELSE IF \/ \E a, b \in 1..Len(files) : files[a].hasYM # files[b].hasYM
                     \/ \E a, b \in 1..Len(slices) :
                            Len(slices[a].cols) # Len(slices[b].cols)
             THEN [outcome |-> "raised", raised |-> "ValueError",
                   opened |-> Range(names), out |-> out, file |-> d[out]]
             ELSE [outcome |-> "written", raised |-> "none",
                   opened |-> Range(names), out |-> out, file |-> Combined(files)]

CombineRunTask ==
    /\ status[Combine] = "running"
    /\ LET r == CombineResult(combineSubtask, disk)
       IN  /\ disk' = IF r.outcome = "written"
                      THEN [disk EXCEPT ![r.out] = r.file] ELSE disk
           /\ opened' = r.opened
           /\ outcome' = [outcome EXCEPT ![Combine] = r.outcome]
           /\ raised' = [raised EXCEPT ![Combine] = r.raised]
           /\ status' = [status EXCEPT ![Combine] =
                             IF r.raised = "none" THEN "success" ELSE "fail"]
    /\ UNCHANGED <<config, graph, restartFileName, lookup, dirExists, maskFile,
                   loaded, madeDir, run>>

------------------------------------------------------------------------------
\* PlotTransportSubtask.run_task

\* inFileName = '{}/transport/transport_{:04d}-{:04d}.nc' with the startYear and
\* endYear of [timeSeries]
LoadTransportPath(sy, ey) ==
    Path("timeSeriesSubdirectory", <<"transport">>, sy, ey)

PlotInFileName(sy, ey) == FileOf(LoadTransportPath(sy, ey))

\* xarray.open_dataset(inFileName).transport.isel(nTransects=self.transectIndex)
LoadTransport(file, transectIndex) ==
    IF ~file.exists
    THEN [raised |-> "IOError", series |-> <<>>]
    ELSE IF \E k \in 1..Len(file.slices) : Len(file.slices[k].cols) <= transectIndex
    THEN [raised |-> "IndexError", series |-> <<>>]
    ELSE [raised |-> "none",
          series |-> [k \in 1..Len(file.slices) |->
                         [ym |-> file.slices[k].ym,
                          name |-> file.slices[k].names[transectIndex + 1],
                          transect |-> file.slices[k].cols[transectIndex + 1]]]]

\* transport = self._load_transport(config), and with a control run
\* refTransport = self._load_transport(self.controlConfig)
PlotRunTask(j) ==
    /\ status[Plot(j)] = "running"
    /\ LET p == plotSubtasks[j]
           transport == LoadTransport(disk[PlotInFileName(startYear, endYear)],
                                      p.transectIndex)
           refTransport == LoadTransport(controlConfig.file, p.transectIndex)
           err == IF transport.raised # "none" THEN transport.raised
                  ELSE IF controlConfig.present THEN refTransport.raised
                  ELSE "none"
       IN  /\ loaded' = [loaded EXCEPT ![j] = transport.series]
           /\ raised' = [raised EXCEPT ![Plot(j)] = err]
           /\ outcome' = [outcome EXCEPT ![Plot(j)] =
                              IF err = "none" THEN "plotted" ELSE "raised"]
           /\ status' = [status EXCEPT ![Plot(j)] =
                             IF err = "none" THEN "success" ELSE "fail"]
    /\ UNCHANGED <<config, graph, restartFileName, lookup, dirExists, disk,
                   maskFile, opened, madeDir, run>>

------------------------------------------------------------------------------
\* The analysis is run again over the output directory the last run left

NewRun ==
    /\ run < MaxRuns
    /\ \A t \in Tasks : status[t] \in Ended
    /\ run' = run + 1
    /\ status' = InitialStatus(subtasks, runAfterTasks)
    /\ restartFileName' = [i \in ComputeIds |-> "None"]
    /\ lookup' = [i \in ComputeIds |-> "notCalled"]
    /\ raised' = [t \in Tasks |-> "none"]
    /\ outcome' = [t \in Tasks |-> "none"]
    /\ loaded' = [j \in PlotIds |-> <<>>]
    /\ opened' = {}
    /\ madeDir' = [i \in ComputeIds |-> "notCalled"]
    /\ UNCHANGED <<config, graph, dirExists, disk, maskFile>>

Next ==
    \/ \E i \in ComputeIds : SetupAndCheck(i)
    \/ \E t \in Tasks : StartTask(t)
    \/ \E t \in Tasks : BlockTask(t)
    \/ MasksRunTask
    \/ \E i \in ComputeIds : ComputeMakedirs(i)
    \/ \E i \in ComputeIds : ComputeRunTask(i)
    \/ CombineRunTask
    \/ \E j \in PlotIds : PlotRunTask(j)
    \/ NewRun

------------------------------------------------------------------------------
\* Configurations

AllFeatures == [k \in 1..MaxTransects |-> k]
AllMonths == [y \in Years |-> Months]
RestartStreams == {<<>>, <<"restart.0001">>, <<"restart.0002", "restart.0001">>}

\* Every year range, with and without restart files, over an empty output
\* directory
Init ==
    \E sy \in Years, ey \in Years, cfg \in {<<>>, <<1>>, <<ALL>>},
       restarts \in RestartStreams, enabled \in BOOLEAN :
        InitWith(sy, ey, cfg, AllFeatures, NoControl, restarts, enabled,
                 AllMonths, EmptyDisk)

Spec == Init /\ [][Next]_vars

\* Re-runs over every prior content of the output directory: per-year files
\* with any months, with or without year and month, and a combined file left
\* by an earlier run
PriorYearFiles(y) ==
    {File([k \in 1..Len(SortedSeq(ms)) |->
              Slice(<<y, SortedSeq(ms)[k]>>, <<1>>, <<1>>)], h) :
        ms \in (SUBSET Months) \ {{}}, h \in BOOLEAN}

StaleCombined == File(<<Slice(<<1, 1>>, <<1>>, <<1>>)>>, TRUE)

PriorDisks(ey) ==
    IF ey = 1
    THEN {[EmptyDisk EXCEPT ![<<1, 1>>] = f] :
             f \in {NoFile} \cup PriorYearFiles(1)}
    ELSE {[EmptyDisk EXCEPT ![<<1, 1>>] = f, ![<<2, 2>>] = g, ![<<1, 2>>] = h] :
             f \in {NoFile} \cup PriorYearFiles(1),
             g \in {NoFile} \cup PriorYearFiles(2),
             h \in {NoFile, StaleCombined}}

InitCache ==
    \E ey \in {1, 2}, ms \in SUBSET Months :
        \E files \in PriorDisks(ey) :
            InitWith(1, ey, <<1>>, AllFeatures, NoControl, <<"restart.0001">>,
                     TRUE, [y \in Years |-> ms], files)

SpecCache == InitCache /\ [][Next]_vars

\* Every list of transects to plot against every set of transects of the
\* feature file, with and without a control run
ControlFile ==
    File(<<Slice(<<1, 1>>, AllFeatures, AllFeatures)>>, FALSE)

InitPlot ==
    \E ey \in {1, 2}, cfg \in InjectiveSeqs(Names) \cup {<<ALL>>},
       present \in SUBSET Names,
       control \in {NoControl, [present |-> TRUE, file |-> NoFile],
                    [present |-> TRUE, file |-> ControlFile]} :
        InitWith(1, ey, cfg, SortedSeq(present), control, <<"restart.0001">>,
                 TRUE, AllMonths, EmptyDisk)

SpecPlot == InitPlot /\ [][Next]_vars

------------------------------------------------------------------------------
\* Properties

ComputeOfYear(y) ==
    {i \in ComputeIds : computeSubtasks[i] = [startYear |-> y, endYear |-> y]}

\* C1: the combine subtask does not start its run_task until the compute
\* subtask of every year of startYear..endYear has finished.
C1_CombineAfterEveryCompute ==
    (startYear <= endYear /\ status[Combine] \in Started) =>
        \A y \in startYear..endYear :
            \E i \in ComputeOfYear(y) : status[Compute(i)] = "success"

C1_Witness ==
    /\ startYear < endYear
    /\ status[Combine] = "running"
    /\ \A i \in ComputeIds : outcome[Compute(i)] = "written"

\* C2: no compute subtask starts its run_task before the masks subtask has
\* finished and produced the mask file.
C2_ComputeAfterMasks ==
    \A i \in ComputeIds :
        status[Compute(i)] \in Started =>
            status[Masks] = "success" /\ maskFile.exists

C2_Witness ==
    \E i \in ComputeIds :
        status[Compute(i)] = "success" /\ outcome[Compute(i)] = "written"

\* C3: no plot subtask starts its run_task before the combine subtask has
\* finished, so the file _load_transport opens for the main run exists.
C3_PlotAfterCombine ==
    \A j \in PlotIds :
        status[Plot(j)] \in Started =>
            /\ status[Combine] = "success"
            /\ disk[PlotInFileName(startYear, endYear)].exists

C3_Witness ==
    \E j \in PlotIds :
        /\ startYear < endYear
        /\ status[Plot(j)] = "success"
        /\ loaded[j] # <<>>

\* C4: the constructor creates and registers exactly one compute subtask, with
\* startYear = endYear = y, for every year y of startYear..endYear and none
\* for any other year, and hands the combine subtask the ascending list of
\* these years as startYears and as endYears.
C4_OneComputePerYear ==
    /\ \A y \in Years :
           Cardinality(ComputeOfYear(y)) =
               IF startYear <= y /\ y <= endYear THEN 1 ELSE 0
    /\ \A i \in ComputeIds :
           /\ computeSubtasks[i].startYear = computeSubtasks[i].endYear
           /\ computeSubtasks[i].startYear \in startYear..endYear
           /\ Compute(i) \in subtasks
    /\ combineSubtask.startYears = combineSubtask.endYears
    /\ Len(combineSubtask.startYears) =
           (IF startYear <= endYear THEN endYear - startYear + 1 ELSE 0)
    /\ \A k \in 1..Len(combineSubtask.startYears) :
           combineSubtask.startYears[k] = startYear + k - 1

C4_Witness ==
    /\ startYear < endYear
    /\ Len(computeSubtasks) = endYear - startYear + 1
    /\ \A i \in ComputeIds : status[Compute(i)] = "success"

\* C10: setup_and_check of a compute subtask raises IOError when the lookup
\* of the 'restart' stream raises ValueError, and restartFileName then keeps
\* its initial value None; when the stream has a restart file,
\* restartFileName is the first path returned and nothing is raised.
C10_RestartFile ==
    \A i \in ComputeIds :
        /\ (lookup[i] # "notCalled" /\ restartFiles = <<>>) =>
               /\ lookup[i] = "ValueError"
               /\ status[Compute(i)] = "rejected"
               /\ raised[Compute(i)] = "IOError"
               /\ restartFileName[i] = "None"
        /\ (lookup[i] # "notCalled" /\ restartFiles # <<>>) =>
               /\ lookup[i] = "paths"
               /\ status[Compute(i)] # "rejected"
               /\ restartFileName[i] = restartFiles[1]
        /\ lookup[i] = "notCalled" => restartFileName[i] = "None"

C10_Witness ==
    \E i \in ComputeIds :
        /\ lookup[i] = "ValueError"
        /\ raised[Compute(i)] = "IOError"
        /\ restartFileName[i] = "None"

C10_WitnessPresent ==
    \E i \in ComputeIds :
        /\ Len(restartFiles) > 1
        /\ restartFileName[i] = restartFiles[1]

\* The step that ends the run_task of a task
Finishes(t) == status[t] \in {"running", "body"} /\ status'[t] \in {"success", "fail"}

\* Every Time entry of the file has the (year, month) of some input file
EveryEntryHasInput(file, inputs) ==
    /\ file.hasYM
    /\ \A k \in 1..Len(file.slices) :
           \E q \in 1..Len(inputs) : inputs[q] = file.slices[k].ym

\* C5: when the per-year output file exists and every Time entry in it has the
\* (year, month) of some input file, run_task of the compute subtask returns
\* without computing and without writing or modifying any file.
C5_ValidOutputIsKept ==
    [][\A i \in ComputeIds :
          (/\ status[Compute(i)] \in {"makedirs", "body"}
           /\ status'[Compute(i)] # status[Compute(i)]
           /\ disk[OutFileName(computeSubtasks[i])].exists
           /\ EveryEntryHasInput(disk[OutFileName(computeSubtasks[i])],
                                 InputFiles(computeSubtasks[i], inputMonths)))
          => (/\ disk' = disk
              /\ maskFile' = maskFile
              /\ dirExists' = dirExists
              /\ Finishes(Compute(i)) =>
                     /\ outcome'[Compute(i)] = "exists"
                     /\ raised'[Compute(i)] = "none"
                     /\ status'[Compute(i)] = "success")]_vars

C5_Witness ==
    \E i \in ComputeIds :
        /\ run = 1
        /\ outcome[Compute(i)] = "exists"
        /\ Len(disk[OutFileName(computeSubtasks[i])].slices) > 1
        /\ disk[OutFileName(computeSubtasks[i])].hasYM

\* C6: after run_task of a compute subtask has written its output file, a
\* second run_task of the subtask over the same input files finds that file
\* valid: it returns without raising and without rewriting the file.
C6_OwnOutputIsValid ==
    [][\A i \in ComputeIds :
          (/\ Finishes(Compute(i))
           /\ run > 1
           /\ maskFile.exists
           /\ InputFiles(computeSubtasks[i], inputMonths) # <<>>
           /\ disk[OutFileName(computeSubtasks[i])] =
                  ComputedFile(InputFiles(computeSubtasks[i], inputMonths),
                               transectsToPlot, maskFile.transectNames))
          => (/\ outcome'[Compute(i)] = "exists"
              /\ raised'[Compute(i)] = "none"
              /\ disk' = disk)]_vars

\* C7: run_task of the combine subtask writes the combined file only when it
\* does not exist; when it exists, run_task opens no input file and leaves
\* every file as it is, whatever the existing file holds.
C7_CombineOnlyWhenAbsent ==
    [][(startYear <= endYear /\ Finishes(Combine)) =>
          /\ disk' # disk =>
                 /\ ~disk[CombineOutFileName(combineSubtask)].exists
                 /\ \A f \in FileNames \ {CombineOutFileName(combineSubtask)} :
                        disk'[f] = disk[f]
          /\ disk[CombineOutFileName(combineSubtask)].exists =>
                 /\ disk' = disk
                 /\ opened' = {}
                 /\ outcome'[Combine] = "exists"
                 /\ status'[Combine] = "success"]_vars

C7_Witness ==
    /\ startYear < endYear
    /\ outcome[Combine] = "exists"
    /\ disk[<<startYear, endYear>>] = StaleCombined
    /\ \E i \in ComputeIds : outcome[Compute(i)] = "written"

\* The per-year files of startYear..endYear, concatenated in ascending order
RECURSIVE ConcatYears(_, _, _)
ConcatYears(d, sy, ey) ==
    IF sy > ey THEN <<>> ELSE d[<<sy, sy>>].slices \o ConcatYears(d, sy + 1, ey)

\* C8: whenever run_task of the combine subtask has finished, the combined
\* file holds the concatenation along Time, in ascending year order, of the
\* per-year files on disk, for any prior content of the output directory.
C8_CombinedIsConcatenation ==
    (startYear <= endYear /\ status[Combine] = "success") =>
        /\ disk[<<startYear, endYear>>].exists
        /\ disk[<<startYear, endYear>>].slices = ConcatYears(disk, startYear, endYear)

\* C8 as amended: the same, when run_task wrote the combined file (it did not
\* exist at the check) or startYear = endYear (the combined file is the
\* per-year file).
C8_WrittenIsConcatenation ==
    (/\ startYear <= endYear
     /\ status[Combine] = "success"
     /\ (outcome[Combine] = "written" \/ startYear = endYear)) =>
        /\ disk[<<startYear, endYear>>].exists
        /\ disk[<<startYear, endYear>>].slices = ConcatYears(disk, startYear, endYear)

C8_Witness ==
    /\ startYear < endYear
    /\ status[Combine] = "success"
    /\ outcome[Combine] = "written"
    /\ \E i \in ComputeIds : outcome[Compute(i)] = "exists"

\* C9: the series the plot subtask of transect T loads with
\* isel(nTransects=transectIndex) is the transport of T, and position
\* transectIndex of transectNames is T, also when a transect of
\* transectsToPlot is not found in the transect masks.
C9_IndexIsTransect ==
    \A j \in PlotIds :
        (status[Plot(j)] \in {"success", "fail"}) =>
            \A k \in 1..Len(loaded[j]) :
                /\ loaded[j][k].transect = plotSubtasks[j].transect
                /\ loaded[j][k].name = plotSubtasks[j].transect

\* C11: for every configuration with startYear <= endYear, the file
\* _load_transport reads for the main run is the file run_task of the combine
\* subtask writes, so a plot subtask reads a file the task has produced.
C11_PlotReadsCombinedFile ==
    startYear <= endYear =>
        /\ ResolvePath(LoadTransportPath(startYear, endYear)) =
               ResolvePath(CombineOutPath(combineSubtask))
        /\ \A j \in PlotIds :
               status[Plot(j)] \in {"success", "fail"} =>
                   /\ outcome[Combine] \in {"written", "exists"}
                   /\ disk[FileOf(CombineOutPath(combineSubtask))].exists

C11_Witness ==
    \E j \in PlotIds :
        /\ startYear < endYear
        /\ outcome[Combine] = "written"
        /\ status[Plot(j)] = "success"
        /\ Len(loaded[j]) = Len(disk[<<startYear, endYear>>].slices)
        /\ loaded[j] # <<>>

\* Two tasks may run at the same time when neither runs after the other
MayRunTogether(t, u) ==
    t # u /\ u \notin runAfterTasks[t] /\ t \notin runAfterTasks[u]

\* C12: two compute subtasks of different years that may run at the same time
\* write different output files, and the creation of the shared transport/
\* directory by several of them never makes a compute subtask fail, in every
\* interleaving of their steps.
C12_ParallelComputeIsRaceFree ==
    /\ \A i, k \in ComputeIds :
           MayRunTogether(Compute(i), Compute(k)) =>
               ResolvePath(ComputeOutPath(computeSubtasks[i])) #
                   ResolvePath(ComputeOutPath(computeSubtasks[k]))
    /\ \A i \in ComputeIds :
           /\ raised[Compute(i)] # "OSError"
           /\ madeDir[i] # "notCalled" =>
                  /\ dirExists
                  /\ status[Compute(i)] \in {"body", "success", "fail"}
                  /\ status[Compute(i)] = "fail" =>
                         raised[Compute(i)] \in {"IndexError", "AttributeError"}

C12_Witness ==
    \E i, k \in ComputeIds :
        /\ MayRunTogether(Compute(i), Compute(k))
        /\ madeDir[i] = "created"
        /\ madeDir[k] = "OSError"
        /\ status[Compute(i)] = "body"
        /\ status[Compute(k)] = "body"

====
